---------------------------- MODULE Spec2Model ----------------------------
(***************************************************************************)
(* Hero Wars: the leveling model (core.py and entities.py), the cooldown   *)
(* timers and the gates (core.py, tools.py), the dispatch of events to a   *)
(* hero's skills (entities.py), and the players with their database        *)
(* (player.py, database.py, herowars.py).                                  *)
(*                                                                         *)
(* The repository holds two implementations of the entity classes: the     *)
(* module core.py (event-firing setters, clamping level setter, threaded   *)
(* cooldown) and the module entities.py (validating setters).  An object   *)
(* under test belongs to one of them; which one is chosen in Init.         *)
(***************************************************************************)
EXTENDS Integers, Sequences, FiniteSets

VARIABLES
    cls,          \* [module, kind]: the class of the entity under test
    max_level,    \* its max_level attribute
    level,        \* its _level
    exp,          \* its _exp (0 for an entity that is not a Hero)
    ctor,         \* [level, exp]: the arguments it was constructed with
    call,         \* the last setter call: [op, arg, level, exp, outcome]
    events,       \* the notifications fired by the last call, in order
    succeeded,    \* TRUE while every call so far returned without an error
    gained,       \* TRUE while every call so far was a returning exp
                  \* assignment of a non-negative value
    timer,        \* which cooldown mechanism is under test
    cooldown,     \* Skill.cooldown / _Cooldown.max_cooldown / cooldown(time)
    remaining_cooldown,  \* Skill.remaining_cooldown / _Cooldown's
    pc,           \* per calling thread: its position in Skill.start_cooldown
    tmp,          \* per thread: the value read by "remaining_cooldown -= 1"
    repeat,       \* the TickRepeat: [status, limit, count]
    starts,       \* how many cooldowns were started
    resets,       \* how many times e_cooldown_reset fired
    decs,         \* decrements of the remaining cooldown since the last tick
    last,         \* the last cooldown step: [act, before, by]
    wrap,         \* the decorators on the handler under test, outermost first
    percentage,   \* the percentage given to chance(percentage)
    result,       \* the last call of the decorated handler
    loadout,      \* a hero's [passives, skills, items], each a sequence of
                  \* entries [level, methods]
    dispatched,   \* the last execute_skills call: [method_name, invoked]
    enabled,      \* the cls_ids of the Hero subclasses with enabled = True
    players,      \* player.py's players list: [userid, gold, heroes, hero]
    db,           \* the database: [players, heroes, skills], sets of rows
    event,        \* the last event or call on the players:
                  \* [op, userid, arg, outcome, effects, calls]
    startup,      \* how herowars.load ended: [outcome, setup, tables]
    client        \* a core.py Client and its last gold assignment:
                  \* [gold, op, arg, previous, fired]

hero_vars ==
    <<cls, max_level, level, exp, ctor, call, events, succeeded, gained>>

cooldown_vars ==
    <<timer, cooldown, remaining_cooldown, pc, tmp, repeat, starts, resets,
      decs, last>>

gate_vars == <<wrap, percentage, result>>

\* What the leveling and the cooldown machines leave alone.
dispatch_vars == <<loadout, dispatched>>

player_vars == <<enabled, players, db, event, startup, client>>

other_vars == <<gate_vars, dispatch_vars, player_vars>>

vars == <<hero_vars, cooldown_vars, other_vars>>

(***************************************************************************)
(* Bounds of the model and the inputs the operations are tried on.         *)
(***************************************************************************)
\* No call is taken that would put the level above LevelCap.
LevelCap == 7

Modules == {"core", "entities"}

\* core.py has Entity, Hero, Skill; entities.py has Entity, Hero, Skill, Item.
\* Skill and Item inherit Entity's level setter unchanged.
Classes ==
    { [module |-> "core", kind |-> k] : k \in {"Hero", "Skill"} }
    \cup { [module |-> "entities", kind |-> k] : k \in {"Hero", "Skill", "Item"} }

\* max_level of the class: negative for unlimited; 0, 2 as small caps.
MaxLevels == {-1, 0, 2}

\* Constructor arguments <<level, exp>> (Hero(level, exp)).
CtorArgs == { <<0, 0>>, <<0, 60>>, <<1, 50>>, <<2, 0>>, <<5, 0>> }

\* Values assigned to exp, and amounts added to the current exp.
ExpInputs == {-50, 0, 50, 100, 160, 225, 285, 310, 435, 535}

ExpDeltas == {-60, 60, 150}

LevelInputs == -1 .. LevelCap

\* Threads that may be inside Skill.start_cooldown at once.
MaxThreads == 2

Threads == 1 .. MaxThreads

\* Cooldowns started in one behaviour.
MaxStarts == 3

\* Cooldown durations, in seconds: 0 .. MaxCooldown.
MaxCooldown == 2

Durations == 0 .. MaxCooldown

\* Ticks counted by a TickRepeat that has no limit.
MaxCount == 2

\* Skill instances (self) a decorated method is called on.
Instances == {1, 2}

Timers == {"core.Skill", "tools._Cooldown", "tools.cooldown", "tools.cooldownf"}

(***************************************************************************)
(* Pure helpers.                                                           *)
(***************************************************************************)
\* core.py Hero.evaluate_required_exp; entities.py Hero.required_exp
evaluate_required_exp(lv) == 100 + lv * 25

NoEvents == << >>

Ev(name, new, previous, exp_change, level_change, seen_level) ==
    [name |-> name, new |-> new, previous |-> previous,
     exp_change |-> exp_change, level_change |-> level_change,
     seen_level |-> seen_level]

Result(lv, ex, outcome, evs) ==
    [level |-> lv, exp |-> ex, outcome |-> outcome, events |-> evs]

(***************************************************************************)
(* core.py                                                                 *)
(***************************************************************************)
\* An Entity._set_level that compares the requested level, before the clamp,
\* with the stored one.
core_Entity_set_level_requested(lv, ex, mx, n) ==
    LET new == IF 0 <= mx /\ mx < n THEN mx ELSE n
    IN  IF n # lv
        THEN Result(new, ex, "ok",
                    << Ev("e_level_change", new, lv, 0, new - lv, new) >>)
        ELSE Result(lv, ex, "ok", NoEvents)

\* Entity._set_level: clamp to max_level, store and fire only on a change.
core_Entity_set_level(lv, ex, mx, n) ==
    LET new == IF 0 <= mx /\ mx < n THEN mx ELSE n
    IN  IF new # lv
        THEN Result(new, ex, "ok",
                    << Ev("e_level_change", new, lv, 0, new - lv, new) >>)
        ELSE Result(lv, ex, "ok", NoEvents)

\* Hero._set_level: self._exp = 0, then Entity._set_level.
core_Hero_set_level(lv, ex, mx, n) ==
    core_Entity_set_level(lv, 0, mx, n)

\* The level-up loop of Hero._set_exp.  A threshold that is not positive
\* would keep the loop running for ever.
RECURSIVE LevelUp(_, _, _)
LevelUp(lv, e, lc) ==
    LET required_exp == evaluate_required_exp(lv + lc)
    IN  IF e >= required_exp
        THEN IF required_exp <= 0
             THEN [exp |-> e, level_change |-> lc, hang |-> TRUE]
             ELSE LevelUp(lv, e - required_exp, lc + 1)
        ELSE [exp |-> e, level_change |-> lc, hang |-> FALSE]

\* The level-down loop of Hero._set_exp.
RECURSIVE LevelDown(_, _, _)
LevelDown(lv, e, lc) ==
    IF e < 0
    THEN IF evaluate_required_exp(lv - 1 + lc) <= 0
         THEN [exp |-> e, level_change |-> lc, hang |-> TRUE]
         ELSE LevelDown(lv, e + evaluate_required_exp(lv - 1 + lc), lc - 1)
    ELSE [exp |-> e, level_change |-> lc, hang |-> FALSE]

\* Mutant: the level change applied through Hero's own setter.
core_Hero_apply_level_change_resetting(lv, ex, mx, n) ==
    core_Hero_set_level(lv, ex, mx, n)

\* How Hero._set_exp applies the level change: Entity's setter, so that
\* the exp just computed is kept.
core_Hero_apply_level_change(lv, ex, mx, n) ==
    core_Entity_set_level(lv, ex, mx, n)

\* Hero._set_exp
core_Hero_set_exp(lv, ex, mx, n) ==
    IF n = ex
    THEN Result(lv, ex, "ok", NoEvents)
    ELSE LET up   == LevelUp(lv, n, 0)
             down == LevelDown(lv, up.exp, up.level_change)
             fire == Ev("e_exp_change", n, ex, n - ex, down.level_change, lv)
             set  == core_Hero_apply_level_change(
                         lv, down.exp, mx, lv + down.level_change)
         IN  IF up.hang \/ down.hang
             THEN Result(lv, down.exp, "hang", NoEvents)
             ELSE Result(set.level, set.exp, "ok", <<fire>> \o set.events)

(***************************************************************************)
(* entities.py                                                             *)
(***************************************************************************)
\* Entity.level setter
entities_Entity_level(lv, ex, mx, n) ==
    IF n < 0
    THEN Result(lv, ex, "ValueError", NoEvents)
    ELSE IF n > mx /\ mx > 0
         THEN Result(lv, ex, "ValueError", NoEvents)
         ELSE Result(n, ex, "ok", NoEvents)

\* Hero.level setter: self._exp = 0, then Entity's setter.
entities_Hero_level(lv, ex, mx, n) ==
    entities_Entity_level(lv, 0, mx, n)

\* The loop of the Hero.exp setter, over self._exp and self._level.
RECURSIVE IncreaseLevels(_, _)
IncreaseLevels(lv, e) ==
    IF e >= evaluate_required_exp(lv)
    THEN IncreaseLevels(lv + 1, e - evaluate_required_exp(lv))
    ELSE [level |-> lv, exp |-> e]

\* Hero.exp setter
entities_Hero_exp(lv, ex, mx, n) ==
    IF n < 0
    THEN Result(lv, ex, "ValueError", NoEvents)
    ELSE IF n # ex
         THEN LET r == IncreaseLevels(lv, ex)
              IN  Result(r.level, r.exp, "ok", NoEvents)
         ELSE Result(lv, ex, "ok", NoEvents)

(***************************************************************************)
(* Cooldown timers: the TickRepeat that tools.py builds its timers on.     *)
(* A TickRepeat calls its callback once per interval until `limit` calls   *)
(* were made (limit 0: without end); `remaining` is limit - count.         *)
(***************************************************************************)
\* TickRepeat(callback): not started.
TickRepeat_new == [status |-> "STOPPED", limit |-> 0, count |-> 0]

\* TickRepeat.remaining
TickRepeat_remaining(r) == IF r.limit = 0 THEN 0 ELSE r.limit - r.count

\* TickRepeat.start(1, limit): refused while the repeat is running.
TickRepeat_start(r, limit) ==
    IF r.status = "RUNNING"
    THEN r
    ELSE [status |-> "RUNNING", limit |-> limit, count |-> 0]

\* TickRepeat.stop()
TickRepeat_stop(r) == [r EXCEPT !.status = "STOPPED"]

\* One interval has passed: count it, go on or stop (the callback follows).
TickRepeat_execute(r) ==
    LET counted == [r EXCEPT !.count = r.count + 1]
    IN  IF TickRepeat_remaining(counted) # 0 \/ counted.limit = 0
        THEN counted
        ELSE [counted EXCEPT !.status = "STOPPED"]

NoStep == [act |-> "init", before |-> 0, by |-> 0, arg |-> 0]

Step(act, before, by, arg) ==
    [act |-> act, before |-> before, by |-> by, arg |-> arg]

\* The cooldown state of a spec that does not exercise it.
CooldownAtRest ==
    /\ timer = "core.Skill"
    /\ cooldown = 0
    /\ remaining_cooldown = 0
    /\ pc = [t \in Threads |-> "idle"]
    /\ tmp = [t \in Threads |-> 0]
    /\ repeat = TickRepeat_new
    /\ starts = 0
    /\ resets = 0
    /\ decs = 0
    /\ last = NoStep

NoResult ==
    [op |-> "init", by |-> 0, draw |-> 0, drawn |-> FALSE, p |-> 0,
     returned |-> 0, effects |-> 0, started |-> 0, before |-> 0]

\* The gate state of a spec that does not exercise it.
GatesAtRest ==
    /\ wrap = <<>>
    /\ percentage = 0
    /\ result = NoResult

NoLoadout == [passives |-> <<>>, skills |-> <<>>, items |-> <<>>]

NoDispatch == [method_name |-> "", invoked |-> <<>>]

\* The loadout of a spec that does not exercise execute_skills.
DispatchAtRest ==
    /\ loadout = NoLoadout
    /\ dispatched = NoDispatch

NoRows == [players |-> {}, heroes |-> {}, skills |-> {}]

NoEvent ==
    [op |-> "init", userid |-> 0, arg |-> 0, outcome |-> "ok",
     effects |-> <<>>, calls |-> <<>>]

\* herowars.load has not been called.
NotStarted == [outcome |-> "init", setup |-> FALSE, tables |-> FALSE]

\* Client(steamid): gold=0, nothing assigned yet.
Client_new ==
    [gold |-> 0, op |-> "init", arg |-> 0, previous |-> 0, fired |-> FALSE]

\* No player has connected and nothing is stored.
PlayersAtRest ==
    /\ enabled = {}
    /\ players = <<>>
    /\ db = NoRows
    /\ event = NoEvent
    /\ startup = NotStarted
    /\ client = Client_new

OthersAtRest == GatesAtRest /\ DispatchAtRest /\ PlayersAtRest

(***************************************************************************)
(* The state machine of one entity.                                        *)
(***************************************************************************)
NoCall == [op |-> "init", arg |-> 0, level |-> 0, exp |-> 0, outcome |-> "ok"]

\* An entity as its constructor leaves it.  The arguments are ones the
\* data model allows: 0 <= level <= max_level, 0 <= exp < required exp.
InitHero ==
    /\ cls \in Classes
    /\ max_level \in MaxLevels
    /\ ctor \in { [level |-> a[1], exp |-> a[2]] : a \in CtorArgs }
    /\ cls.kind # "Hero" => ctor.exp = 0
    /\ max_level >= 0 => ctor.level <= max_level
    /\ ctor.exp < evaluate_required_exp(ctor.level)
    /\ level = ctor.level
    /\ exp = ctor.exp
    /\ call = NoCall
    /\ events = NoEvents
    /\ succeeded = TRUE
    /\ gained = TRUE
    /\ CooldownAtRest
    /\ OthersAtRest

Running == call.outcome # "hang"

Apply(op, n, r) ==
    /\ Running
    /\ r.level <= LevelCap
    /\ level' = r.level
    /\ exp' = r.exp
    /\ events' = r.events
    /\ call' = [op |-> op, arg |-> n, level |-> level, exp |-> exp,
                outcome |-> r.outcome]
    /\ succeeded' = (succeeded /\ r.outcome = "ok")
    /\ gained' = (gained /\ op = "set_exp" /\ n >= 0 /\ r.outcome = "ok")
    /\ UNCHANGED <<cls, max_level, ctor, cooldown_vars, other_vars>>

ExpArgs == ExpInputs \cup { exp + d : d \in ExpDeltas }

core_Entity_SetLevel ==
    /\ cls.module = "core" /\ cls.kind # "Hero"
    /\ \E n \in LevelInputs :
          Apply("set_level", n, core_Entity_set_level(level, exp, max_level, n))

core_Hero_SetLevel ==
    /\ cls.module = "core" /\ cls.kind = "Hero"
    /\ \E n \in LevelInputs :
          Apply("set_level", n, core_Hero_set_level(level, exp, max_level, n))

core_Hero_SetExp ==
    /\ cls.module = "core" /\ cls.kind = "Hero"
    /\ \E n \in ExpArgs :
          Apply("set_exp", n, core_Hero_set_exp(level, exp, max_level, n))

entities_Entity_SetLevel ==
    /\ cls.module = "entities" /\ cls.kind # "Hero"
    /\ \E n \in LevelInputs :
          Apply("set_level", n, entities_Entity_level(level, exp, max_level, n))

entities_Hero_SetLevel ==
    /\ cls.module = "entities" /\ cls.kind = "Hero"
    /\ \E n \in LevelInputs :
          Apply("set_level", n, entities_Hero_level(level, exp, max_level, n))

entities_Hero_SetExp ==
    /\ cls.module = "entities" /\ cls.kind = "Hero"
    /\ \E n \in ExpArgs :
          Apply("set_exp", n, entities_Hero_exp(level, exp, max_level, n))

NextHero ==
    \/ core_Entity_SetLevel
    \/ core_Hero_SetLevel
    \/ core_Hero_SetExp
    \/ entities_Entity_SetLevel
    \/ entities_Hero_SetLevel
    \/ entities_Hero_SetExp

SpecHero == InitHero /\ [][NextHero]_vars

(***************************************************************************)
(* The state machine of one skill's cooldown.                              *)
(***************************************************************************)
\* core.py Skill.__init__ sets remaining_cooldown = cooldown; tools.py
\* _Cooldown.__init__ sets remaining_cooldown = 0 and starts its TickRepeat;
\* cooldown / cooldownf attach a new TickRepeat to the decorated method.
CooldownInit ==
    /\ timer \in Timers
    /\ cooldown \in Durations
    /\ timer = "tools.cooldownf" => cooldown = 0
    /\ remaining_cooldown = IF timer = "core.Skill" THEN cooldown ELSE 0
    /\ pc = [t \in Threads |-> "idle"]
    /\ tmp = [t \in Threads |-> 0]
    /\ repeat = IF timer = "tools._Cooldown"
                THEN TickRepeat_start(TickRepeat_new, cooldown)
                ELSE TickRepeat_new
    /\ starts = IF timer = "tools._Cooldown" THEN 1 ELSE 0
    /\ resets = 0
    /\ decs = 0
    /\ last = NoStep
    /\ cls = [module |-> IF timer = "core.Skill" THEN "core" ELSE "entities",
              kind |-> "Skill"]
    /\ max_level = -1
    /\ level \in {0, 1}
    /\ exp = 0
    /\ ctor = [level |-> level, exp |-> 0]
    /\ call = NoCall
    /\ events = NoEvents
    /\ succeeded = TRUE
    /\ gained = TRUE

InitCooldown == CooldownInit /\ OthersAtRest

\* The remaining cooldown as the mechanism under test reports it.
RemainingCooldown ==
    IF timer \in {"core.Skill", "tools._Cooldown"}
    THEN remaining_cooldown
    ELSE TickRepeat_remaining(repeat)

\* core.py Skill.execute: the Thread for start_cooldown is created but never
\* started, so only the handler runs.
core_Skill_execute ==
    /\ timer = "core.Skill"
    /\ level > 0
    /\ last' = Step("execute", remaining_cooldown, 0, cooldown)
    /\ UNCHANGED <<hero_vars, other_vars>>
    /\ UNCHANGED <<timer, cooldown, remaining_cooldown, pc, tmp,
                   repeat, starts, resets, decs>>

\* A thread calls Skill.start_cooldown: self.remaining_cooldown = self.cooldown
core_Skill_start_cooldown(t) ==
    /\ timer = "core.Skill"
    /\ pc[t] = "idle"
    /\ starts < MaxStarts
    /\ remaining_cooldown' = cooldown
    /\ pc' = [pc EXCEPT ![t] = "while"]
    /\ starts' = starts + 1
    /\ last' = Step("start", remaining_cooldown, t, cooldown)
    /\ UNCHANGED <<hero_vars, other_vars>>
    /\ UNCHANGED <<timer, cooldown, tmp, repeat, resets, decs>>

\* while self.remaining_cooldown > 0: time.sleep(1)
core_Skill_while(t) ==
    /\ timer = "core.Skill"
    /\ pc[t] = "while"
    /\ pc' = [pc EXCEPT ![t] = IF remaining_cooldown > 0 THEN "sleep"
                                ELSE "zero"]
    /\ last' = Step("while", remaining_cooldown, t, 0)
    /\ UNCHANGED <<hero_vars, other_vars>>
    /\ UNCHANGED <<timer, cooldown, remaining_cooldown, tmp,
                   repeat, starts, resets, decs>>

\* A second passes: every thread in time.sleep(1) wakes up.  The steps
\* between two sleeps take less than a second.
core_Skill_second ==
    /\ timer = "core.Skill"
    /\ \A t \in Threads : pc[t] \in {"idle", "sleep"}
    /\ \E t \in Threads : pc[t] = "sleep"
    /\ pc' = [t \in Threads |-> IF pc[t] = "sleep" THEN "load" ELSE pc[t]]
    /\ decs' = 0
    /\ last' = Step("tick", remaining_cooldown, 0, 0)
    /\ UNCHANGED <<hero_vars, other_vars>>
    /\ UNCHANGED <<timer, cooldown, remaining_cooldown, tmp,
                   repeat, starts, resets>>

\* self.remaining_cooldown -= 1, the read
core_Skill_load(t) ==
    /\ timer = "core.Skill"
    /\ pc[t] = "load"
    /\ tmp' = [tmp EXCEPT ![t] = remaining_cooldown]
    /\ pc' = [pc EXCEPT ![t] = "store"]
    /\ last' = Step("load", remaining_cooldown, t, 0)
    /\ UNCHANGED <<hero_vars, other_vars>>
    /\ UNCHANGED <<timer, cooldown, remaining_cooldown, repeat,
                   starts, resets, decs>>

\* self.remaining_cooldown -= 1, the write
core_Skill_store(t) ==
    /\ timer = "core.Skill"
    /\ pc[t] = "store"
    /\ remaining_cooldown' = tmp[t] - 1
    /\ tmp' = [tmp EXCEPT ![t] = 0]
    /\ pc' = [pc EXCEPT ![t] = "while"]
    /\ decs' = decs + 1
    /\ last' = Step("store", remaining_cooldown, t, 0)
    /\ UNCHANGED <<hero_vars, other_vars>>
    /\ UNCHANGED <<timer, cooldown, repeat, starts, resets>>

\* self.remaining_cooldown = 0
core_Skill_zero(t) ==
    /\ timer = "core.Skill"
    /\ pc[t] = "zero"
    /\ remaining_cooldown' = 0
    /\ pc' = [pc EXCEPT ![t] = "fire"]
    /\ last' = Step("zero", remaining_cooldown, t, 0)
    /\ UNCHANGED <<hero_vars, other_vars>>
    /\ UNCHANGED <<timer, cooldown, tmp, repeat, starts, resets,
                   decs>>

\* self.e_cooldown_reset.fire(sender=self)
core_Skill_fire(t) ==
    /\ timer = "core.Skill"
    /\ pc[t] = "fire"
    /\ resets' = resets + 1
    /\ pc' = [pc EXCEPT ![t] = "idle"]
    /\ last' = Step("fire", remaining_cooldown, t, 0)
    /\ UNCHANGED <<hero_vars, other_vars>>
    /\ UNCHANGED <<timer, cooldown, remaining_cooldown, tmp,
                   repeat, starts, decs>>

\* tools.py _Cooldown: a tick of its TickRepeat calls reduce_cooldown.
Cooldown_reduce_cooldown ==
    /\ timer = "tools._Cooldown"
    /\ repeat.status = "RUNNING"
    /\ LET r == TickRepeat_execute(repeat)
       IN  IF remaining_cooldown <= 0
           THEN /\ repeat' = TickRepeat_stop(r)
                /\ decs' = 0
                /\ UNCHANGED remaining_cooldown
           ELSE /\ repeat' = r
                /\ decs' = 1
                /\ remaining_cooldown' = remaining_cooldown - 1
    /\ last' = Step("tick", remaining_cooldown, 0, 0)
    /\ UNCHANGED <<hero_vars, other_vars>>
    /\ UNCHANGED <<timer, cooldown, pc, tmp, starts, resets>>

\* tools.py cooldown / cooldownf: a tick of method_wrapper.cooldown, whose
\* callback is _empty.
method_wrapper_tick ==
    /\ timer \in {"tools.cooldown", "tools.cooldownf"}
    /\ repeat.status = "RUNNING"
    /\ repeat.limit = 0 => repeat.count < MaxCount
    /\ repeat' = TickRepeat_execute(repeat)
    /\ decs' = IF repeat.limit = 0 THEN 0 ELSE 1
    /\ last' = Step("tick", TickRepeat_remaining(repeat), 0, 0)
    /\ UNCHANGED <<hero_vars, other_vars>>
    /\ UNCHANGED <<timer, cooldown, remaining_cooldown, pc, tmp,
                   starts, resets>>

\* The body shared by the method_wrapper of cooldown(time) and cooldownf(fn),
\* called on skill instance i; time is the static time or fn(self, event).
method_wrapper(i, time) ==
    /\ IF TickRepeat_remaining(repeat) <= 0
       THEN /\ starts < MaxStarts
            /\ repeat' = TickRepeat_start(repeat, time)
            /\ starts' = starts + 1
            /\ last' = Step("run", TickRepeat_remaining(repeat), i, time)
       ELSE /\ last' = Step("skip", TickRepeat_remaining(repeat), i, time)
            /\ UNCHANGED <<repeat, starts>>
    /\ UNCHANGED <<hero_vars, other_vars>>
    /\ UNCHANGED <<timer, cooldown, remaining_cooldown, pc, tmp,
                   resets, decs>>

cooldown_method_wrapper(i) ==
    /\ timer = "tools.cooldown"
    /\ method_wrapper(i, cooldown)

cooldownf_method_wrapper(i) ==
    /\ timer = "tools.cooldownf"
    /\ \E time \in Durations : method_wrapper(i, time)

NextCooldown ==
    \/ core_Skill_execute
    \/ \E t \in Threads : core_Skill_start_cooldown(t)
    \/ \E t \in Threads : core_Skill_while(t)
    \/ core_Skill_second
    \/ \E t \in Threads : core_Skill_load(t)
    \/ \E t \in Threads : core_Skill_store(t)
    \/ \E t \in Threads : core_Skill_zero(t)
    \/ \E t \in Threads : core_Skill_fire(t)
    \/ Cooldown_reduce_cooldown
    \/ method_wrapper_tick
    \/ \E i \in Instances : cooldown_method_wrapper(i)
    \/ \E i \in Instances : cooldownf_method_wrapper(i)

SpecCooldown == InitCooldown /\ [][NextCooldown]_vars

\* The steps that time alone makes happen: a thread inside start_cooldown
\* goes on and its sleep ends, and the game delivers the TickRepeat's ticks.
TickStep ==
    \/ \E t \in Threads : core_Skill_while(t)
    \/ core_Skill_second
    \/ \E t \in Threads : core_Skill_load(t)
    \/ \E t \in Threads : core_Skill_store(t)
    \/ \E t \in Threads : core_Skill_zero(t)
    \/ \E t \in Threads : core_Skill_fire(t)
    \/ Cooldown_reduce_cooldown
    \/ method_wrapper_tick

\* Fair ticking: a tick step that stays possible is eventually taken.
SpecCooldownFair == SpecCooldown /\ WF_vars(TickStep)

(***************************************************************************)
(* The gates of tools.py composed on one handler.                          *)
(***************************************************************************)
\* randint(0, 100) draws from 0 .. RandMax.
RandMax == 100

Percentages == {0, 50, 100}

\* The draws tried: each percentage and its two neighbours.
Draws ==
    { d \in 0 .. RandMax : \E p \in Percentages : d \in {p - 1, p, p + 1} }

\* The decorators on the handler, outermost first.
Wraps ==
    { <<"chance">>, <<"chancef">>,
      <<"chance", "cooldown">>, <<"cooldown", "chance">> }

\* The test "randint(0, 100) < percentage", which chance does not make.
chance_passes_strictly(draw, p) == draw < p

\* chance / chancef: if randint(0, 100) <= percentage
chance_passes(draw, p) == draw <= p

\* A call of the decorated handler.  c is the call so far: the TickRepeat,
\* whether randint was called, the timer starts, the runs of the handler and
\* the value returned.  The handler itself returns None, here 0.
RECURSIVE decorated(_, _, _, _)
decorated(gates, c, draw, p) ==
    IF gates = <<>>
    THEN [c EXCEPT !.effects = @ + 1, !.returned = 0]
    ELSE CASE Head(gates) = "chance" ->
                IF chance_passes(draw, p)
                THEN decorated(Tail(gates), [c EXCEPT !.drawn = TRUE], draw, p)
                ELSE [c EXCEPT !.drawn = TRUE, !.returned = 1]
           [] Head(gates) = "chancef" ->
                IF chance_passes(draw, p)
                THEN decorated(Tail(gates), [c EXCEPT !.drawn = TRUE], draw, p)
                ELSE [c EXCEPT !.drawn = TRUE, !.returned = 2]
           [] Head(gates) = "cooldown" ->
                IF TickRepeat_remaining(c.repeat) <= 0
                THEN decorated(Tail(gates),
                               [c EXCEPT !.repeat = TickRepeat_start(@, cooldown),
                                         !.started = @ + 1],
                               draw, p)
                ELSE [c EXCEPT !.returned = 3]

InitGates ==
    /\ wrap \in Wraps
    /\ percentage \in Percentages
    /\ result = NoResult
    /\ timer = "tools.cooldown"
    /\ cooldown \in Durations
    /\ remaining_cooldown = 0
    /\ pc = [t \in Threads |-> "idle"]
    /\ tmp = [t \in Threads |-> 0]
    /\ repeat = TickRepeat_new
    /\ starts = 0
    /\ resets = 0
    /\ decs = 0
    /\ last = NoStep
    /\ cls = [module |-> "entities", kind |-> "Skill"]
    /\ max_level = -1
    /\ level = 1
    /\ exp = 0
    /\ ctor = [level |-> 1, exp |-> 0]
    /\ call = NoCall
    /\ events = NoEvents
    /\ succeeded = TRUE
    /\ gained = TRUE
    /\ DispatchAtRest
    /\ PlayersAtRest

\* Skill instance i calls the decorated handler; randint returns draw, and
\* chancef's fn returns p (chance has the static percentage).
decorated_call(i) ==
    /\ wrap # <<>>
    /\ \E draw \in Draws, p \in Percentages :
          /\ Head(wrap) # "chancef" => p = percentage
          /\ LET c == decorated(wrap,
                                [repeat |-> repeat, drawn |-> FALSE,
                                 started |-> 0, effects |-> 0, returned |-> 0],
                                draw, p)
             IN  /\ starts + c.started <= MaxStarts
                 /\ repeat' = c.repeat
                 /\ starts' = starts + c.started
                 /\ result' = [op |-> "call", by |-> i,
                               draw |-> IF c.drawn THEN draw ELSE 0,
                               drawn |-> c.drawn, p |-> p,
                               returned |-> c.returned, effects |-> c.effects,
                               started |-> c.started,
                               before |-> TickRepeat_remaining(repeat)]
                 /\ last' = Step("call", TickRepeat_remaining(repeat), i,
                                 cooldown)
    /\ UNCHANGED <<hero_vars, wrap, percentage, dispatch_vars, player_vars>>
    /\ UNCHANGED <<timer, cooldown, remaining_cooldown, pc, tmp, resets, decs>>

NextGates ==
    \/ \E i \in Instances : decorated_call(i)
    \/ method_wrapper_tick

SpecGates == InitGates /\ [][NextGates]_vars

(***************************************************************************)
(* entities.py Hero.execute_skills: the dispatch of an event to a hero's   *)
(* passives, skills and items.                                             *)
(***************************************************************************)
\* A hero has at most MaxEntries passives, skills and items each.
MaxEntries == 2

MethodNames == {"on_spawn", "on_death"}

\* An entry is [level, methods]: its level and the handler methods its class
\* defines.  Passives and items are tried at level 0.
Entries(levels) ==
    { [level |-> lv, methods |-> ms] : lv \in levels,
                                        ms \in {{}, {"on_spawn"}} }

SeqsOf(S) == UNION { [1 .. n -> S] : n \in 0 .. MaxEntries }

\* An entity of the entities module that no call has touched.
HeroAtRest ==
    /\ cls = [module |-> "entities", kind |-> "Hero"]
    /\ max_level = -1
    /\ level = 0
    /\ exp = 0
    /\ ctor = [level |-> 0, exp |-> 0]
    /\ call = NoCall
    /\ events = NoEvents
    /\ succeeded = TRUE
    /\ gained = TRUE

InitDispatch ==
    /\ loadout \in [passives : SeqsOf(Entries({0})),
                    skills : SeqsOf(Entries({0, 1})),
                    items : SeqsOf(Entries({0}))]
    /\ dispatched = NoDispatch
    /\ HeroAtRest
    /\ CooldownAtRest
    /\ GatesAtRest
    /\ PlayersAtRest

\* The test that lets every skill through, which execute_skills does not make.
skill_level_ignored(skill) == TRUE

\* if skill.level:
skill_level(skill) == skill.level # 0

\* Skill.execute_method: method = getattr(self.__class__, method_name, None);
\* if method: method(self, game_event).  Gives the invocations it adds.
Skill_execute_method(kind, k, entry, method_name) ==
    IF method_name \in entry.methods THEN << <<kind, k>> >> ELSE <<>>

\* for entry in entries: entry.execute_method(...), from the k-th entry on;
\* checked tells whether the loop tests the entry's level first.
RECURSIVE for_each(_, _, _, _, _)
for_each(kind, entries, k, checked, method_name) ==
    IF k > Len(entries)
    THEN <<>>
    ELSE (IF checked => skill_level(entries[k])
          THEN Skill_execute_method(kind, k, entries[k], method_name)
          ELSE <<>>)
         \o for_each(kind, entries, k + 1, checked, method_name)

Hero_execute_skills(method_name) ==
    /\ dispatched' =
          [method_name |-> method_name,
           invoked |->
              for_each("passive", loadout.passives, 1, FALSE, method_name)
              \o for_each("skill", loadout.skills, 1, TRUE, method_name)
              \o for_each("item", loadout.items, 1, FALSE, method_name)]
    /\ UNCHANGED <<hero_vars, cooldown_vars, gate_vars, loadout, player_vars>>

NextDispatch ==
    \E method_name \in MethodNames : Hero_execute_skills(method_name)

SpecDispatch == InitDispatch /\ [][NextDispatch]_vars

(***************************************************************************)
(* player.py, database.py, herowars.py: the players list, the database and *)
(* the events that create, save and remove players.                        *)
(***************************************************************************)
\* The userids of the clients that may connect.
Users == {1, 2}

\* PlayerEntity(index_from_userid(userid)).steamid
Steamid(userid) == IF userid = 1 THEN "STEAM_A" ELSE "STEAM_B"

\* Hero.max_level and Skill.max_level
Hero_max_level == 70

Skill_max_level == 8

\* The Hero subclasses defined on the server.  A name is the sequence of its
\* letters' numbers: "Zol", "Axe", "Bl".
HeroClasses ==
    { [cls_id |-> "Alchemist", name |-> <<26, 15, 12>>,
       skill_set |-> <<"Potion">>],
      [cls_id |-> "Berserker", name |-> <<1, 24, 5>>, skill_set |-> <<>>],
      [cls_id |-> "Cleric", name |-> <<2, 12>>, skill_set |-> <<>>] }

ClassIds == { c.cls_id : c \in HeroClasses }

ClassOf(cls_id) == CHOOSE c \in HeroClasses : c.cls_id = cls_id

\* The order of Python strings.
RECURSIVE StrLess(_, _)
StrLess(a, b) ==
    IF a = <<>>
    THEN b # <<>>
    ELSE IF b = <<>>
         THEN FALSE
         ELSE IF Head(a) # Head(b)
              THEN Head(a) < Head(b)
              ELSE StrLess(Tail(a), Tail(b))

\* sorted(classes, key=lambda subcls: subcls.name)
RECURSIVE sorted_by_name(_)
sorted_by_name(classes) ==
    IF classes = {}
    THEN <<>>
    ELSE LET first == CHOOSE c \in classes :
                          \A d \in classes \ {c} : ~StrLess(d.name, c.name)
         IN  <<first>> \o sorted_by_name(classes \ {first})

\* The test that lets every subclass through, which get_subclasses does not
\* make.
subcls_any(subcls) == TRUE

\* if subcls.enabled
subcls_enabled(subcls) == subcls.cls_id \in enabled

\* Entity.get_subclasses, called on Hero
Hero_get_subclasses ==
    sorted_by_name({ subcls \in HeroClasses : subcls_enabled(subcls) })

\* tools.find_element: the position of the first element whose attribute
\* has the value, 0 for None.
find_element(iterable, attr_name, attr_value) ==
    LET hits == { k \in 1 .. Len(iterable) :
                     iterable[k][attr_name] = attr_value }
    IN  IF hits = {}
        THEN 0
        ELSE CHOOSE k \in hits : \A h \in hits : k <= h

\* Hero.__init__(level, exp): one skill of level 0 per class in skill_set.
Hero_new(hero_cls, lv, ex) ==
    [cls_id |-> hero_cls.cls_id, level |-> lv, exp |-> ex,
     skills |-> [k \in 1 .. Len(hero_cls.skill_set) |-> 0]]

\* _Player.__new__(index): gold 0, no hero, no heroes.
Player_new(userid) ==
    [userid |-> userid, gold |-> 0, heroes |-> <<>>, hero |-> 0]

\* INSERT OR REPLACE: the row takes the place of the row with its key.
insert_or_replace(rows, key, row) ==
    { r \in rows : \E f \in key : r[f] # row[f] } \cup {row}

\* database.save_hero_data
save_hero_data(d, steamid, hero) ==
    LET skill_rows ==
            { [steamid |-> steamid, hero_cls_id |-> hero.cls_id,
               cls_id |-> ClassOf(hero.cls_id).skill_set[k],
               level |-> hero.skills[k]] : k \in 1 .. Len(hero.skills) }
    IN  [d EXCEPT
           !.heroes = insert_or_replace(@, {"steamid", "cls_id"},
                          [steamid |-> steamid, cls_id |-> hero.cls_id,
                           level |-> hero.level, exp |-> hero.exp]),
           !.skills = { r \in @ : \A n \in skill_rows :
                                     \/ r.steamid # n.steamid
                                     \/ r.hero_cls_id # n.hero_cls_id
                                     \/ r.cls_id # n.cls_id }
                      \cup skill_rows]

\* database.save_player_data
save_player_data(d, steamid, player) ==
    LET hero == player.heroes[player.hero]
    IN  save_hero_data(
            [d EXCEPT !.players =
                insert_or_replace(@, {"steamid"},
                    [steamid |-> steamid, gold |-> player.gold,
                     hero_cls_id |-> hero.cls_id])],
            steamid, hero)

\* cursor.fetchone() or default, for rows picked out by a full key.
fetchone(rows, default) ==
    IF rows = {} THEN default ELSE CHOOSE r \in rows : TRUE

\* cursor.fetchall(): the rows in some order.
fetchall(rows) ==
    { f \in [1 .. Cardinality(rows) -> rows] :
         \A r \in rows : \E k \in DOMAIN f : f[k] = r }

\* database.load_hero_data: hero.level, hero.exp = row or (0, 0) through the
\* two setters, then skill.level = data[0] for each skill with a row.
load_hero_data(d, steamid, hero) ==
    LET row == fetchone({ r \in d.heroes : /\ r.steamid = steamid
                                           /\ r.cls_id = hero.cls_id },
                        [level |-> 0, exp |-> 0])
        a == entities_Hero_level(hero.level, hero.exp, Hero_max_level,
                                 row.level)
        b == entities_Hero_exp(a.level, a.exp, Hero_max_level, row.exp)
        skill_set == ClassOf(hero.cls_id).skill_set
        data(k) == { r \in d.skills : /\ r.steamid = steamid
                                      /\ r.hero_cls_id = hero.cls_id
                                      /\ r.cls_id = skill_set[k] }
        s(k) == IF data(k) = {}
                THEN Result(hero.skills[k], 0, "ok", NoEvents)
                ELSE entities_Entity_level(hero.skills[k], 0, Skill_max_level,
                                           fetchone(data(k), 0).level)
    IN  IF a.outcome # "ok" \/ b.outcome # "ok"
              \/ \E k \in DOMAIN hero.skills : s(k).outcome # "ok"
        THEN [outcome |-> "ValueError", hero |-> hero]
        ELSE [outcome |-> "ok",
              hero |-> [hero EXCEPT !.level = b.level, !.exp = b.exp,
                                    !.skills = [k \in DOMAIN hero.skills
                                                   |-> s(k).level]]]

\* The loop of load_player_data over the fetched heroes rows:
\* hero = find_element(heroes, 'cls_id', cls_id)(level, exp) calls None when
\* no enabled subclass has the cls_id.
RECURSIVE load_heroes(_, _, _, _, _)
load_heroes(d, steamid, hero_cls_id, player, fetched) ==
    IF fetched = <<>>
    THEN [outcome |-> "ok", player |-> player]
    ELSE LET row == Head(fetched)
             heroes == Hero_get_subclasses
             found == find_element(heroes, "cls_id", row.cls_id)
         IN  IF found = 0
             THEN [outcome |-> "TypeError", player |-> player]
             ELSE LET l == load_hero_data(d, steamid,
                               Hero_new(heroes[found], row.level, row.exp))
                  IN  IF l.outcome # "ok"
                      THEN [outcome |-> l.outcome, player |-> player]
                      ELSE load_heroes(d, steamid, hero_cls_id,
                               [player EXCEPT
                                  !.heroes = Append(@, l.hero),
                                  !.hero = IF row.cls_id = hero_cls_id
                                           THEN Len(player.heroes) + 1
                                           ELSE @],
                               Tail(fetched))

\* database.load_player_data; fetched is what fetchall returns for the
\* player's heroes rows.  No hero class has the cls_id "", here None.
load_player_data(d, steamid, player, fetched) ==
    LET row == fetchone({ r \in d.players : r.steamid = steamid },
                        [gold |-> 0, hero_cls_id |-> ""])
    IN  IF row.gold < 0
        THEN [outcome |-> "ValueError", player |-> player]
        ELSE load_heroes(d, steamid, row.hero_cls_id,
                         [player EXCEPT !.gold = row.gold], fetched)

\* A create_player that leaves player._hero as loaded.
hero_as_loaded(player) == player

\* if not player.hero: player._hero = player.heroes[0]
hero_or_first(player) ==
    IF player.hero = 0 THEN [player EXCEPT !.hero = 1] ELSE player

\* player.create_player up to players.append(player)
create_player(d, userid, fetched) ==
    LET loaded == load_player_data(d, Steamid(userid), Player_new(userid),
                                   fetched)
        player == loaded.player
        heroes == Hero_get_subclasses
    IN  IF loaded.outcome # "ok"
        THEN loaded
        ELSE IF player.heroes = <<>> /\ heroes = <<>>
             THEN [outcome |-> "IndexError", player |-> player]
             ELSE LET owner ==
                          IF player.heroes = <<>>
                          THEN [player EXCEPT !.heroes =
                                   <<Hero_new(heroes[1], 0, 0)>>]
                          ELSE player
                  IN  [outcome |-> "ok", player |-> hero_or_first(owner)]

\* What the database may hold when the server starts: nothing, or the rows
\* earlier sessions stored for the player STEAM_A.
Databases ==
    { NoRows,
      [players |-> { [steamid |-> "STEAM_A", gold |-> 0,
                      hero_cls_id |-> "Alchemist"] },
       heroes |-> { [steamid |-> "STEAM_A", cls_id |-> "Alchemist",
                     level |-> 1, exp |-> 50] },
       skills |-> { [steamid |-> "STEAM_A", hero_cls_id |-> "Alchemist",
                     cls_id |-> "Potion", level |-> 1] }],
      [players |-> { [steamid |-> "STEAM_A", gold |-> 0,
                      hero_cls_id |-> "Cleric"] },
       heroes |-> { [steamid |-> "STEAM_A", cls_id |-> "Alchemist",
                     level |-> 2, exp |-> 0],
                    [steamid |-> "STEAM_A", cls_id |-> "Cleric",
                     level |-> 0, exp |-> 0] },
       skills |-> { [steamid |-> "STEAM_A", hero_cls_id |-> "Alchemist",
                     cls_id |-> "Potion", level |-> 0] }],
      [players |-> { [steamid |-> "STEAM_A", gold |-> 0,
                      hero_cls_id |-> "Berserker"] },
       heroes |-> { [steamid |-> "STEAM_A", cls_id |-> "Berserker",
                     level |-> 1, exp |-> 0] },
       skills |-> {}] }

\* The levels a hero or a skill is raised to during play.
RaisedLevels == {1}

TeamNums == {0, 2}

\* A load that does not look at the subclasses.
heroes_missing_unseen(subclasses) == FALSE

\* if not Hero.get_subclasses()
heroes_missing(subclasses) == subclasses = <<>>

\* herowars.load: raise NotImplementedError when there are no heroes, else
\* setup_database (CREATE TABLE IF NOT EXISTS).  tables tells whether the
\* database file had its tables already.
herowars_load(tables) ==
    IF heroes_missing(Hero_get_subclasses)
    THEN [outcome |-> "NotImplementedError", setup |-> FALSE,
          tables |-> tables]
    ELSE [outcome |-> "ok", setup |-> TRUE, tables |-> TRUE]

\* The server after herowars.load: the event handlers are registered, no
\* player is connected; a database that holds rows has its tables.
InitPlayers ==
    /\ enabled \in SUBSET ClassIds
    /\ players = <<>>
    /\ db \in Databases
    /\ \E tables \in BOOLEAN :
          /\ db # NoRows => tables
          /\ startup = herowars_load(tables)
    /\ event = NoEvent
    /\ client = Client_new
    /\ HeroAtRest
    /\ CooldownAtRest
    /\ GatesAtRest
    /\ DispatchAtRest

\* list.remove of the k-th element
list_without(list, k) ==
    [i \in 1 .. Len(list) - 1 |-> IF i < k THEN list[i] ELSE list[i + 1]]

\* A players.remove that leaves the list as it is.
players_kept(list, k) == list

\* players.remove(player), player being the k-th element
players_remove(list, k) == list_without(list, k)

\* A hero setter that assigns _hero before it saves self.hero.
Player_hero_assign_then_save(d, steamid, player, target) ==
    [db |-> save_hero_data(d, steamid, player.heroes[target]),
     player |-> [player EXCEPT !.hero = target]]

\* _Player.hero setter for an owned hero:
\* save_hero_data(database_path, self.steamid, self.hero); self._hero = hero
Player_hero(d, steamid, player, target) ==
    [db |-> save_hero_data(d, steamid, player.heroes[player.hero]),
     player |-> [player EXCEPT !.hero = target]]

\* An event or call that dispatched nothing to a hero's skills.
Happened(op, userid, arg, outcome, effects) ==
    [op |-> op, userid |-> userid, arg |-> arg, outcome |-> outcome,
     effects |-> effects, calls |-> <<>>]

\* player.hero.execute_skills(method_name, game_event): the call, on the
\* player's active hero.
execute_skills(player, method_name) ==
    [method_name |-> method_name, userid |-> player.userid,
     hero |-> player.heroes[player.hero].cls_id]

\* A get_player that finds nobody.
get_player_nobody(userid) == 0

\* player.get_player
get_player(userid) == find_element(players, "userid", userid)

\* What player_spawn does after it has its player.
spawn_skills(teamnum) ==
    IF teamnum > 0 THEN <<"execute_skills">> ELSE <<>>

\* if game_event.get_int('teamnum') > 0:
\*     player.hero.execute_skills('on_spawn', game_event)
spawn_calls(player, teamnum) ==
    IF teamnum > 0 THEN <<execute_skills(player, "on_spawn")>> ELSE <<>>

\* herowars.player_spawn.  Without the tables, create_player ends in the
\* first SELECT of load_player_data (sqlite3.OperationalError).
player_spawn(userid, teamnum) ==
    LET k == get_player(userid)
    IN  /\ IF k # 0
           THEN /\ db' = save_player_data(db, Steamid(userid), players[k])
                /\ event' = [Happened("player_spawn", userid, teamnum, "ok",
                                 <<"save_player_data">>
                                     \o spawn_skills(teamnum))
                             EXCEPT !.calls = spawn_calls(players[k], teamnum)]
                /\ UNCHANGED players
           ELSE \E fetched \in fetchall({ r \in db.heroes :
                                            r.steamid = Steamid(userid) }) :
                   LET c == IF startup.tables
                            THEN create_player(db, userid, fetched)
                            ELSE [outcome |-> "OperationalError",
                                  player |-> Player_new(userid)]
                   IN  /\ players' = IF c.outcome = "ok"
                                     THEN Append(players, c.player)
                                     ELSE players
                       /\ event' = IF c.outcome = "ok"
                                   THEN [Happened("player_spawn", userid,
                                             teamnum, "ok",
                                             <<"create_player">>
                                                 \o spawn_skills(teamnum))
                                         EXCEPT !.calls =
                                             spawn_calls(c.player, teamnum)]
                                   ELSE Happened("player_spawn", userid,
                                            teamnum, c.outcome, <<>>)
                       /\ UNCHANGED db
        /\ UNCHANGED <<hero_vars, cooldown_vars, gate_vars, dispatch_vars,
                       enabled, startup, client>>

\* herowars.player_disconnect: player.remove_player(userid)
player_disconnect(userid) ==
    LET k == get_player(userid)
    IN  /\ IF k # 0
           THEN /\ db' = save_player_data(db, Steamid(userid), players[k])
                /\ players' = players_remove(players, k)
                /\ event' = Happened("player_disconnect", userid, 0, "ok",
                                <<"save_player_data", "players.remove">>)
           ELSE /\ event' = Happened("player_disconnect", userid, 0, "ok",
                                <<>>)
                /\ UNCHANGED <<players, db>>
        /\ UNCHANGED <<hero_vars, cooldown_vars, gate_vars, dispatch_vars,
                       enabled, startup, client>>

\* player.hero = hero, for a connected player; target is the position of the
\* hero in player.heroes, 0 for a hero that is not in it.
Player_set_hero(userid, target) ==
    LET k == get_player(userid)
    IN  /\ k # 0
        /\ target \in 0 .. Len(players[k].heroes)
        /\ IF target = 0
           THEN /\ event' = Happened("set_hero", userid, target,
                                "ValueError", <<>>)
                /\ UNCHANGED <<players, db>>
           ELSE LET r == Player_hero(db, Steamid(userid), players[k], target)
                IN  /\ db' = r.db
                    /\ players' = [players EXCEPT ![k] = r.player]
                    /\ event' = Happened("set_hero", userid, target, "ok",
                                    <<"save_hero_data", "_hero">>)
        /\ UNCHANGED <<hero_vars, cooldown_vars, gate_vars, dispatch_vars,
                       enabled, startup, client>>

\* player.hero.level = n during play
Player_hero_set_level(userid, n) ==
    LET k == get_player(userid)
    IN  /\ k # 0
        /\ LET hero == players[k].heroes[players[k].hero]
               r == entities_Hero_level(hero.level, hero.exp, Hero_max_level,
                                        n)
           IN  /\ players' = [players EXCEPT
                                 ![k].heroes[players[k].hero].level = r.level,
                                 ![k].heroes[players[k].hero].exp = r.exp]
               /\ event' = Happened("set_level", userid, n, r.outcome, <<>>)
        /\ UNCHANGED <<hero_vars, cooldown_vars, gate_vars, dispatch_vars,
                       enabled, startup, client, db>>

\* skill.level = n for the s-th skill of the player's hero
Player_skill_set_level(userid, s, n) ==
    LET k == get_player(userid)
    IN  /\ k # 0
        /\ s \in DOMAIN players[k].heroes[players[k].hero].skills
        /\ LET hero == players[k].heroes[players[k].hero]
               r == entities_Entity_level(hero.skills[s], 0, Skill_max_level,
                                          n)
           IN  /\ players' = [players EXCEPT
                                 ![k].heroes[players[k].hero].skills[s] =
                                     r.level]
               /\ event' = Happened("set_skill_level", userid, n, r.outcome,
                               <<>>)
        /\ UNCHANGED <<hero_vars, cooldown_vars, gate_vars, dispatch_vars,
                       enabled, startup, client, db>>

NextPlayers ==
    \/ \E userid \in Users, teamnum \in TeamNums :
          player_spawn(userid, teamnum)
    \/ \E userid \in Users : player_disconnect(userid)
    \/ \E userid \in Users, target \in 0 .. Cardinality(ClassIds) :
          Player_set_hero(userid, target)
    \/ \E userid \in Users, n \in RaisedLevels :
          Player_hero_set_level(userid, n)
    \/ \E userid \in Users, n \in RaisedLevels :
          Player_skill_set_level(userid, 1, n)

SpecPlayers == InitPlayers /\ [][NextPlayers]_vars

(***************************************************************************)
(* Gold: the gold setter of player.py's _Player and of core.py's Client.   *)
(***************************************************************************)
\* Amounts assigned to gold.
GoldInputs == {-5, 0, 10}

\* _Player.gold setter: ValueError for a negative value, else store it.
Player_gold(player, gold) ==
    IF gold < 0
    THEN [outcome |-> "ValueError", player |-> player]
    ELSE [outcome |-> "ok", player |-> [player EXCEPT !.gold = gold]]

\* core.py Client._set_gold: store and fire e_gold_change on a change.
core_Client_set_gold(c, gold) ==
    IF gold # c.gold
    THEN [gold |-> gold, op |-> "set_gold", arg |-> gold,
          previous |-> c.gold, fired |-> TRUE]
    ELSE [gold |-> c.gold, op |-> "set_gold", arg |-> gold,
          previous |-> c.gold, fired |-> FALSE]

\* player.gold = gold, for a connected player
Player_set_gold(userid, gold) ==
    LET k == get_player(userid)
    IN  /\ k # 0
        /\ LET r == Player_gold(players[k], gold)
           IN  /\ players' = [players EXCEPT ![k] = r.player]
               /\ event' = Happened("set_gold", userid, gold, r.outcome, <<>>)
        /\ UNCHANGED <<hero_vars, cooldown_vars, gate_vars, dispatch_vars,
                       enabled, startup, client, db>>

\* client.gold = gold
core_Client_SetGold(gold) ==
    /\ client' = core_Client_set_gold(client, gold)
    /\ UNCHANGED <<hero_vars, cooldown_vars, gate_vars, dispatch_vars,
                   enabled, players, db, event, startup>>

InitGold == InitPlayers

NextGold ==
    \/ \E userid \in Users, teamnum \in TeamNums :
          player_spawn(userid, teamnum)
    \/ \E userid \in Users : player_disconnect(userid)
    \/ \E userid \in Users, gold \in GoldInputs :
          Player_set_gold(userid, gold)
    \/ \E gold \in GoldInputs : core_Client_SetGold(gold)

SpecGold == InitGold /\ [][NextGold]_vars

(***************************************************************************)
(* A cooldown whose skill belongs to the hero of a connected player: the   *)
(* cooldown machine next to the players list.                              *)
(***************************************************************************)
\* The two mechanisms that start a cooldown when a skill is used.
OwnedTimers == {"core.Skill", "tools.cooldown"}

\* The server after herowars.load with every hero enabled, and one skill
\* that has a level.
InitOwned ==
    /\ CooldownInit
    /\ timer \in OwnedTimers
    /\ level > 0
    /\ GatesAtRest
    /\ DispatchAtRest
    /\ enabled = ClassIds
    /\ players = <<>>
    /\ db = NoRows
    /\ startup = herowars_load(TRUE)
    /\ event = NoEvent
    /\ client = Client_new

\* A skill is used through the hero of a player who is in the players list.
Connected == players # <<>>

\* An event reaches the core.py skill of a connected player's hero.
owned_Skill_start_cooldown(t) == Connected /\ core_Skill_start_cooldown(t)

\* An event reaches the decorated method of a connected player's skill.
owned_method_wrapper(i) == Connected /\ cooldown_method_wrapper(i)

NextOwned ==
    \/ \E userid \in Users, teamnum \in TeamNums :
          player_spawn(userid, teamnum)
    \/ \E userid \in Users : player_disconnect(userid)
    \/ \E t \in Threads : owned_Skill_start_cooldown(t)
    \/ \E i \in Instances : owned_method_wrapper(i)
    \/ \E t \in Threads : core_Skill_while(t)
    \/ core_Skill_second
    \/ \E t \in Threads : core_Skill_load(t)
    \/ \E t \in Threads : core_Skill_store(t)
    \/ \E t \in Threads : core_Skill_zero(t)
    \/ \E t \in Threads : core_Skill_fire(t)
    \/ method_wrapper_tick

SpecOwned == InitOwned /\ [][NextOwned]_vars

(***************************************************************************)
(* The game events that herowars.py routes to the heroes' skills.          *)
(***************************************************************************)
\* The userid fields of an event: a user, or 0 for none (the world).
UserFields == {0} \cup Users

\* What a player says: the command, and a text that differs in case.
Texts == {"!ultimate", "!Ultimate"}

\* A player_death that calls the defender's on_death before the attacker's
\* on_kill.
player_death_calls_defender_first(defender, attacker, assister) ==
    IF defender # 0
    THEN (IF attacker # 0
          THEN <<execute_skills(players[defender], "on_death"),
                 execute_skills(players[attacker], "on_kill")>>
          ELSE <<execute_skills(players[defender], "on_suicide")>>)
         \o (IF assister # 0
             THEN <<execute_skills(players[assister], "on_assist")>>
             ELSE <<>>)
    ELSE <<>>

\* The calls of player_death, given the positions of the three players in
\* the players list (0: get_player returned None).
player_death_calls(defender, attacker, assister) ==
    IF defender # 0
    THEN (IF attacker # 0
          THEN <<execute_skills(players[attacker], "on_kill"),
                 execute_skills(players[defender], "on_death")>>
          ELSE <<execute_skills(players[defender], "on_suicide")>>)
         \o (IF assister # 0
             THEN <<execute_skills(players[assister], "on_assist")>>
             ELSE <<>>)
    ELSE <<>>

\* The calls of player_hurt.
player_hurt_calls(defender, attacker) ==
    IF defender # 0 /\ attacker # 0
    THEN <<execute_skills(players[attacker], "on_attack"),
           execute_skills(players[defender], "on_defend")>>
    ELSE <<>>

\* if text == '!ultimate'
is_ultimate(text) == text = "!ultimate"

\* The event a handler has handled, with the calls it made.
Routed(op, userid, arg, calls) ==
    [Happened(op, userid, arg, "ok", <<>>) EXCEPT !.calls = calls]

\* herowars.player_death
player_death(userid, attacker, assister) ==
    /\ event' = Routed("player_death", userid, <<attacker, assister>>,
                       player_death_calls(get_player(userid),
                                          get_player(attacker),
                                          get_player(assister)))
    /\ UNCHANGED <<hero_vars, cooldown_vars, gate_vars, dispatch_vars,
                   enabled, players, db, startup, client>>

\* herowars.player_hurt
player_hurt(userid, attacker) ==
    /\ event' = Routed("player_hurt", userid, <<attacker>>,
                       player_hurt_calls(get_player(userid),
                                         get_player(attacker)))
    /\ UNCHANGED <<hero_vars, cooldown_vars, gate_vars, dispatch_vars,
                   enabled, players, db, startup, client>>

\* herowars.player_jump
player_jump(userid) ==
    LET player == get_player(userid)
    IN  /\ event' = Routed("player_jump", userid, 0,
                           IF player # 0
                           THEN <<execute_skills(players[player], "on_jump")>>
                           ELSE <<>>)
        /\ UNCHANGED <<hero_vars, cooldown_vars, gate_vars, dispatch_vars,
                       enabled, players, db, startup, client>>

\* herowars.player_say
player_say(userid, text) ==
    LET player == get_player(userid)
    IN  /\ event' = Routed("player_say", userid, text,
                           IF player # 0 /\ is_ultimate(text)
                           THEN <<execute_skills(players[player],
                                                 "on_ultimate")>>
                           ELSE <<>>)
        /\ UNCHANGED <<hero_vars, cooldown_vars, gate_vars, dispatch_vars,
                       enabled, players, db, startup, client>>

InitEvents == InitPlayers

NextEvents ==
    \/ \E userid \in Users, teamnum \in TeamNums :
          player_spawn(userid, teamnum)
    \/ \E userid \in Users : player_disconnect(userid)
    \/ \E userid \in Users, target \in 0 .. Cardinality(ClassIds) :
          Player_set_hero(userid, target)
    \/ \E userid, attacker, assister \in UserFields :
          player_death(userid, attacker, assister)
    \/ \E userid, attacker \in UserFields : player_hurt(userid, attacker)
    \/ \E userid \in UserFields : player_jump(userid)
    \/ \E userid \in UserFields, text \in Texts : player_say(userid, text)

SpecEvents == InitEvents /\ [][NextEvents]_vars

(***************************************************************************)
(* Leveling arithmetic the claims are stated with, in closed form.         *)
(***************************************************************************)
\* The sum of the k thresholds from level lv on: required(lv) + ... +
\* required(lv + k - 1); for k < 0, minus the thresholds of the -k levels
\* below lv.
SumRequired(lv, k) == 100 * k + 25 * (k * lv + (k * (k - 1)) \div 2)

\* What is left of n after k level-ups from level lv.
Remainder(lv, n, k) == n - SumRequired(lv, k)

CarryRange == 0 .. 2 * LevelCap

\* The total experience accumulated by a hero at level lv with exp e.
TotalExp(lv, e) == SumRequired(0, lv) + e

IsHero == cls.kind = "Hero"

Fresh == ctor = [level |-> 0, exp |-> 0]

\* C1: a hero constructed at level 0, exp 0 has, after any sequence of
\* successful setLevel and setExperience calls, 0 <= exp < required(level),
\* also at or near max_level.
C1_ExpWithinRequired ==
    (IsHero /\ Fresh /\ succeeded)
        => (0 <= exp /\ exp < evaluate_required_exp(level))

\* C2: every entity's level stays >= 0 and, when max_level >= 0 (0
\* included), <= max_level.
C2_LevelWithinBounds ==
    /\ level >= 0
    /\ max_level >= 0 => level <= max_level

\* C3: setExperience(n), n >= 0 and n # exp, on a hero at level L below
\* max_level ends at level L + k with exp n - SumRequired(L, k), k the
\* smallest k >= 0 whose remainder is below required(L + k).
C3_SetExpCarries ==
    (/\ IsHero
     /\ call.op = "set_exp"
     /\ call.arg >= 0
     /\ call.arg # call.exp
     /\ call.level >= 0
     /\ max_level < 0 \/ call.level < max_level)
        => \E k \in CarryRange :
              /\ Remainder(call.level, call.arg, k)
                     < evaluate_required_exp(call.level + k)
              /\ \A j \in 0 .. k - 1 :
                     Remainder(call.level, call.arg, j)
                        >= evaluate_required_exp(call.level + j)
              /\ level = call.level + k
              /\ exp = Remainder(call.level, call.arg, k)

\* C4: setExperience(n) with n < 0 is rejected, leaves level and exp as they
\* were and emits no notification.
C4_NegativeExpRejected ==
    (IsHero /\ call.op = "set_exp" /\ call.arg < 0)
        => /\ call.outcome = "ValueError"
           /\ level = call.level
           /\ exp = call.exp
           /\ events = NoEvents

\* C5: a Hero setLevel(n) that fails validation leaves level and exp
\* unchanged (exp is not reset to 0).
C5_RejectedSetLevelKeepsState ==
    (IsHero /\ call.op = "set_level" /\ call.outcome = "ValueError")
        => (level = call.level /\ exp = call.exp)

\* Entity._set_level's clamp (core.py), as a value.
Clamped(n) == IF 0 <= max_level /\ max_level < n THEN max_level ELSE n

\* C6: a successful public setLevel on a Hero leaves exp = 0; setExperience
\* changes the level only by the carry delta k (applied through Entity's
\* setter) and leaves exp at the carry's remainder, never reset to 0.
C6_LevelSetZeroesExpCarryKeepsIt ==
    /\ (IsHero /\ call.op = "set_level" /\ call.outcome = "ok") => exp = 0
    /\ (IsHero /\ call.op = "set_exp" /\ call.outcome = "ok"
            /\ level # call.level)
          => \E k \in -(2 * LevelCap) .. 2 * LevelCap :
                /\ 0 <= Remainder(call.level, call.arg, k)
                /\ Remainder(call.level, call.arg, k)
                       < evaluate_required_exp(call.level + k)
                /\ level = Clamped(call.level + k)
                /\ exp = Remainder(call.level, call.arg, k)

\* C6 witness: an exp assignment has changed the level and left a remainder.
C6_Witness ==
    /\ IsHero /\ call.op = "set_exp" /\ call.outcome = "ok"
    /\ level > call.level
    /\ exp > 0

\* C7: when setExperience's level-down loop would take the level below 0,
\* the call ends at level 0, exp 0 without an error.
C7_LevelDownFloorsAtZero ==
    (/\ IsHero
     /\ call.op = "set_exp"
     /\ call.outcome # "ValueError"
     /\ call.level >= 0
     /\ call.arg + SumRequired(0, call.level) < 0)
        => (call.outcome = "ok" /\ level = 0 /\ exp = 0)

\* The exp assignment of the module the hero belongs to.
Hero_set_exp(lv, ex, mx, n) ==
    IF cls.module = "core"
    THEN core_Hero_set_exp(lv, ex, mx, n)
    ELSE entities_Hero_exp(lv, ex, mx, n)

\* C8: the (level, exp) a fresh hero reaches by exp assignments is the one
\* a fresh hero reaches by one assignment of the total accumulated exp.
C8_TotalExpRoundTrips ==
    (IsHero /\ Fresh /\ gained)
        => LET r == Hero_set_exp(0, 0, max_level, TotalExp(level, exp))
           IN  r.outcome = "ok" /\ r.level = level /\ r.exp = exp

\* The timers running for the skill: threads inside start_cooldown's
\* sleep-and-decrement loop, or the TickRepeat when it is running.
ActiveTimers ==
    IF timer = "core.Skill"
    THEN Cardinality({ t \in Threads : pc[t] \in {"sleep", "load", "store"} })
    ELSE IF repeat.status = "RUNNING" THEN 1 ELSE 0

\* C9: the remaining cooldown is never negative, and a cooldown of duration
\* d started while the skill is cooling leaves exactly d remaining.
C9_CooldownNonNegativeNoStacking ==
    /\ RemainingCooldown >= 0
    /\ (last.act \in {"start", "run"} /\ last.before > 0)
          => RemainingCooldown = last.arg

\* C10: at most one timer is active per skill, the remaining cooldown is
\* decremented at most once per tick, and the reset notification fires at
\* most once per started cooldown.
C10_AtMostOneTimer ==
    /\ ActiveTimers <= 1
    /\ decs <= 1
    /\ resets <= starts

\* The two states of a skill's cooldown.
Cooling == RemainingCooldown > 0

Idle == RemainingCooldown = 0

\* C11: under fair ticking a skill that is Cooling eventually returns to
\* Idle, and when a started cooldown reaches 0 the cooldown-reset
\* notification fires; a skill that has never had a cooldown started is Idle.
C11_CoolingReturnsToIdle ==
    /\ [](starts = 0 => Idle)
    /\ Cooling ~> Idle
    /\ (timer \in {"core.Skill", "tools._Cooldown"} /\ starts > 0 /\ Cooling)
          ~> (Idle /\ resets > 0)

\* The calls of a handler's entry point, by what the step recorded.
HandlerRan == last.act \in {"run", "execute"}

\* C12: a call runs the handler and starts the timer only when the remaining
\* cooldown is <= 0 at the call; a call made while it is > 0 is skipped, runs
\* no handler and leaves the remaining cooldown and all other state as it was.
C12_GateOpensOnlyWhenIdle ==
    [][ /\ HandlerRan' => RemainingCooldown <= 0
        /\ starts' > starts /\ last'.act = "run" => RemainingCooldown <= 0
        /\ (RemainingCooldown > 0 /\ last'.act \in {"run", "skip", "execute"})
              => /\ last'.act = "skip"
                 /\ UNCHANGED <<hero_vars, other_vars, timer, cooldown,
                                remaining_cooldown, pc, tmp, repeat,
                                starts, resets, decs>> ]_vars

\* Whether gate g is among the decorators on the handler.
Wrapped(g) == \E k \in 1 .. Len(wrap) : wrap[k] = g

ChanceSkipped == result.returned \in {1, 2}

\* C13: a handler behind the probability gate runs exactly when the draw
\* is <= p (and any cooldown gate on it is open); when the draw is > p the
\* call returns the skipped-by-chance result, runs no handler and changes
\* no state: it does not start the cooldown timer, in either wrapping order.
C13_ChanceSkipChangesNothing ==
    (result.op = "call" /\ result.drawn)
        => /\ (result.draw <= result.p /\ result.before <= 0)
                 => (result.effects = 1 /\ result.returned = 0)
           /\ result.draw > result.p
                 => /\ ChanceSkipped
                    /\ result.effects = 0
                    /\ result.started = 0

\* C14: with both gates on the handler, percentage 100 and cooldown time 0,
\* every call runs the underlying effect exactly once, whatever calls and
\* ticks came before.
C14_SureGatesRunOnce ==
    (/\ result.op = "call"
     /\ Wrapped("chance") /\ Wrapped("cooldown")
     /\ percentage = 100
     /\ cooldown = 0)
        => (result.effects = 1 /\ result.returned = 0)

\* C14 witness: a call with draw 100 made after an earlier call and a tick.
C14_Witness ==
    /\ result.op = "call"
    /\ Wrapped("chance") /\ Wrapped("cooldown")
    /\ percentage = 100
    /\ cooldown = 0
    /\ starts >= 2
    /\ repeat.count > 0
    /\ result.draw = 100
    /\ result.effects = 1

\* The entries execute_skills is to invoke for method m: <<kind, position>>.
Eligible(m) ==
    { <<"passive", k>> : k \in { n \in 1 .. Len(loadout.passives) :
                                    m \in loadout.passives[n].methods } }
    \cup { <<"skill", k>> : k \in { n \in 1 .. Len(loadout.skills) :
                                       /\ m \in loadout.skills[n].methods
                                       /\ loadout.skills[n].level > 0 } }
    \cup { <<"item", k>> : k \in { n \in 1 .. Len(loadout.items) :
                                      m \in loadout.items[n].methods } }

\* Passives come before skills, skills before items, each in list order.
Rank(e) ==
    (CASE e[1] = "passive" -> 0 [] e[1] = "skill" -> 1 [] e[1] = "item" -> 2)
        * (MaxEntries + 1) + e[2]

\* C15: execute_skills invokes the handler on every passive in order, then
\* on every skill of level > 0 in order, then on every item in order; a skill
\* of level 0 is never invoked, and an entry without a handler of that name
\* is passed over without keeping later entries from being invoked.
C15_DispatchOrder ==
    dispatched.method_name # ""
        => LET log == dispatched.invoked
           IN  /\ { log[i] : i \in 1 .. Len(log) }
                     = Eligible(dispatched.method_name)
               /\ \A i, j \in 1 .. Len(log) :
                     i < j => Rank(log[i]) < Rank(log[j])

\* C15 witness: a dispatch over a passive without the handler followed by
\* one with it, a level-0 skill with the handler followed by a level-1 skill
\* with it, and an item.
C15_Witness ==
    /\ dispatched.method_name = "on_spawn"
    /\ Len(loadout.passives) = 2
    /\ loadout.passives[1].methods = {}
    /\ Len(loadout.skills) = 2
    /\ loadout.skills[1] = [level |-> 0, methods |-> {"on_spawn"}]
    /\ loadout.skills[2] = [level |-> 1, methods |-> {"on_spawn"}]
    /\ dispatched.invoked = << <<"passive", 2>>, <<"skill", 2>>, <<"item", 1>> >>

\* The rows stored for a player.
PlayerRows(steamid) == { r \in db.players : r.steamid = steamid }

HeroRows(steamid) == { r \in db.heroes : r.steamid = steamid }

\* The event has just created (loaded) its player.
Created ==
    /\ event.op = "player_spawn"
    /\ event.outcome = "ok"
    /\ event.effects # <<>>
    /\ Head(event.effects) = "create_player"

\* C16: every player in the players list owns at least one hero and has an
\* active hero that is one of its own heroes (never None).
C16_ActiveHeroOwned ==
    \A k \in 1 .. Len(players) :
        /\ Len(players[k].heroes) >= 1
        /\ players[k].hero \in 1 .. Len(players[k].heroes)

\* C16 witness: two players are connected, one of them loaded with two
\* heroes and switched to the second.
C16_Witness ==
    /\ Len(players) = 2
    /\ event.op = "set_hero" /\ event.outcome = "ok"
    /\ \E k \in 1 .. Len(players) :
          Len(players[k].heroes) = 2 /\ players[k].hero = 2

\* C17: a player created for an identity with no stored rows owns exactly
\* one hero, an instance of the first enabled Hero subclass in name order,
\* at level 0, exp 0, and it is the active hero.
C17_FreshPlayerGetsFirstHero ==
    (/\ Created
     /\ PlayerRows(Steamid(event.userid)) = {}
     /\ HeroRows(Steamid(event.userid)) = {})
        => LET player == players[get_player(event.userid)]
           IN  /\ Len(player.heroes) = 1
               /\ player.hero = 1
               /\ player.heroes[1].level = 0
               /\ player.heroes[1].exp = 0
               /\ player.heroes[1].cls_id \in enabled
               /\ \A c \in HeroClasses :
                     c.cls_id \in enabled
                         => ~StrLess(c.name,
                                     ClassOf(player.heroes[1].cls_id).name)

\* C17 witness: a fresh player is created while the subclass that is first
\* by name is disabled and the first by cls_id is not the first by name.
C17_Witness ==
    /\ Created
    /\ PlayerRows(Steamid(event.userid)) = {}
    /\ HeroRows(Steamid(event.userid)) = {}
    /\ enabled = {"Alchemist", "Cleric"}
    /\ players[get_player(event.userid)].heroes[1].cls_id = "Cleric"

\* The database d holds, for the player steamid, the rows of the hero as it
\* is in memory: its level, its exp and the level of each of its skills.
Stored(d, steamid, hero) ==
    /\ { [level |-> r.level, exp |-> r.exp] :
            r \in { q \in d.heroes : /\ q.steamid = steamid
                                     /\ q.cls_id = hero.cls_id } }
          = { [level |-> hero.level, exp |-> hero.exp] }
    /\ \A s \in DOMAIN hero.skills :
          { r.level : r \in { q \in d.skills :
                                 /\ q.steamid = steamid
                                 /\ q.hero_cls_id = hero.cls_id
                                 /\ q.cls_id
                                       = ClassOf(hero.cls_id).skill_set[s] } }
             = { hero.skills[s] }

\* C18: setting the active hero to a hero the player does not own fails
\* with ValueError and leaves the active hero and the stored rows as they
\* were; setting it to an owned hero writes the previous active hero's
\* level, exp and skill levels to the database, and then makes the hero the
\* active one.
C18_SetHeroSavesPrevious ==
    [][ event'.op = "set_hero"
          => LET k == get_player(event'.userid)
                 player == players[k]
             IN  IF event'.arg = 0
                 THEN /\ event'.outcome = "ValueError"
                      /\ UNCHANGED <<players, db>>
                 ELSE /\ event'.outcome = "ok"
                      /\ event'.effects = <<"save_hero_data", "_hero">>
                      /\ Stored(db', Steamid(event'.userid),
                                player.heroes[player.hero])
                      /\ players' = [players EXCEPT ![k].hero = event'.arg]
      ]_vars

\* C18 witness: a player with two heroes has raised the first one's level
\* above the stored one and switched to the second; the first one's row
\* holds the raised level.
C18_Witness ==
    /\ event.op = "set_hero" /\ event.outcome = "ok" /\ event.arg = 2
    /\ LET player == players[get_player(event.userid)]
       IN  /\ player.hero = 2
           /\ player.heroes[1].cls_id = "Cleric"
           /\ player.heroes[1].level = 1
           /\ Stored(db, Steamid(event.userid), player.heroes[1])

\* C19: removing a connected player writes the player's row and the active
\* hero's rows and then takes the player off the players list, so that
\* get_player finds nobody; removing a userid that is not connected changes
\* neither the list nor the database and raises nothing.
C19_RemoveSavesThenRemoves ==
    [][ event'.op = "player_disconnect"
          => LET k == get_player(event'.userid)
                 steamid == Steamid(event'.userid)
             IN  /\ event'.outcome = "ok"
                 /\ IF k = 0
                    THEN UNCHANGED <<players, db>>
                    ELSE /\ event'.effects
                               = <<"save_player_data", "players.remove">>
                         /\ { r \in db'.players : r.steamid = steamid }
                               = { [steamid |-> steamid,
                                    gold |-> players[k].gold,
                                    hero_cls_id |->
                                       players[k].heroes[players[k].hero]
                                           .cls_id] }
                         /\ Stored(db', steamid,
                                   players[k].heroes[players[k].hero])
                         /\ find_element(players', "userid", event'.userid)
                               = 0
                         /\ players' = list_without(players, k)
      ]_vars

\* C19 witness: a player of whom nothing was stored, whose hero was raised
\* to level 1, has been removed while another player stays connected, and
\* the level is in the database.
C19_Witness ==
    /\ event.op = "player_disconnect"
    /\ event.userid = 2
    /\ event.effects # <<>>
    /\ get_player(event.userid) = 0
    /\ Len(players) = 1
    /\ \E r \in HeroRows(Steamid(event.userid)) :
          /\ r.level = 1
          /\ \E p \in PlayerRows(Steamid(event.userid)) :
                p.hero_cls_id = r.cls_id

\* C20: a player created from the rows a removal stored has, as its active
\* hero, a hero of the stored class with the stored level and the stored
\* exp.
C20_ActiveHeroRoundTrips ==
    (Created /\ PlayerRows(Steamid(event.userid)) # {})
        => LET steamid == Steamid(event.userid)
               player == players[get_player(event.userid)]
               hero == player.heroes[player.hero]
           IN  \A p \in PlayerRows(steamid) :
                  /\ hero.cls_id = p.hero_cls_id
                  /\ \A r \in HeroRows(steamid) :
                        r.cls_id = p.hero_cls_id
                            => (hero.level = r.level /\ hero.exp = r.exp)

\* C21: loading a player whose stored heroes rows include a cls_id that no
\* enabled Hero subclass has completes without error: the row is skipped,
\* every row of an enabled class is re-created, and the player is created.
C21_UnknownClassRowSkipped ==
    event.op = "player_spawn"
        => /\ event.outcome = "ok"
           /\ get_player(event.userid) # 0
           /\ Created
                 => LET player == players[get_player(event.userid)]
                        rows == HeroRows(Steamid(event.userid))
                    IN  /\ \A r \in rows :
                              r.cls_id \in enabled
                                  => \E h \in DOMAIN player.heroes :
                                        player.heroes[h].cls_id = r.cls_id
                        /\ \A h \in DOMAIN player.heroes :
                              player.heroes[h].cls_id \in enabled

\* C22: with no enabled Hero subclass, load fails (NotImplementedError)
\* before the database tables are set up, and after that no event creates a
\* player or dispatches to a skill.
C22_NoHeroesNoPlayers ==
    enabled = {}
        => /\ startup.outcome = "NotImplementedError"
           /\ ~startup.setup
           /\ players = <<>>
           /\ event.effects = <<>>

\* C22 witness: load has failed and a spawn event with a team has come in.
C22_Witness ==
    /\ enabled = {}
    /\ startup.outcome = "NotImplementedError"
    /\ event.op = "player_spawn"
    /\ event.arg > 0

\* C23: gold is never negative: a negative assignment is rejected with an
\* error and leaves the gold as it was, for a player.py player and for a
\* core.py client alike, and the gold of every Players row is >= 0.
C23_GoldNeverNegative ==
    /\ \A k \in DOMAIN players : players[k].gold >= 0
    /\ \A r \in db.players : r.gold >= 0
    /\ (event.op = "set_gold" /\ event.arg < 0)
           => event.outcome = "ValueError"
    /\ client.gold >= 0
    /\ (client.op = "set_gold" /\ client.arg < 0)
           => (client.gold = client.previous /\ ~client.fired)

\* C24: once the players whose heroes' skills started a cooldown are all
\* removed, no timer of those skills is active: no thread is left inside
\* start_cooldown, no TickRepeat is running, and no later step decrements a
\* remaining cooldown or fires a reset.
C24_NoTimerAfterRemoval ==
    [][ (players' = <<>> /\ starts > 0)
            => /\ event'.op = "player_disconnect"
                   => /\ \A t \in Threads : pc'[t] = "idle"
                      /\ repeat'.status # "RUNNING"
               /\ players = <<>>
                   => /\ decs' <= decs
                      /\ resets' = resets
                      /\ repeat' = repeat ]_vars

\* The e_exp_change notifications among the ones the last call fired.
ExpChanges == SelectSeq(events, LAMBDA e : e.name = "e_exp_change")

\* C25: a core.py exp assignment of the current value fires nothing and
\* changes nothing; any other fires exactly one e_exp_change that carries
\* the new exp, the previous exp, the exp change and the level change, and
\* it fires after the level change was applied: its observer reads the
\* level the assignment ends with.
C25_ExpChangeAfterLevel ==
    (cls = [module |-> "core", kind |-> "Hero"]
        /\ call.op = "set_exp" /\ call.outcome = "ok")
        => IF call.arg = call.exp
           THEN /\ events = NoEvents
                /\ level = call.level
                /\ exp = call.exp
           ELSE /\ Len(ExpChanges) = 1
                /\ ExpChanges[1].new = call.arg
                /\ ExpChanges[1].previous = call.exp
                /\ ExpChanges[1].exp_change = call.arg - call.exp
                /\ ExpChanges[1].level_change = level - call.level
                /\ ExpChanges[1].seen_level = level

\* The e_level_change notifications among the ones the last call fired.
LevelChanges == SelectSeq(events, LAMBDA e : e.name = "e_level_change")

\* C26: a core.py level assignment stores the level clamped to max_level and
\* fires e_level_change, with the previous and the new level, exactly when
\* the stored level differs from the one before; assigning the current
\* level, or a level above max_level at max_level, fires nothing.
C26_LevelChangeOnlyOnChange ==
    (cls.module = "core" /\ call.op = "set_level")
        => /\ level = IF 0 <= max_level /\ max_level < call.arg
                      THEN max_level
                      ELSE call.arg
           /\ IF level # call.level
              THEN /\ Len(LevelChanges) = 1
                   /\ LevelChanges[1].previous = call.level
                   /\ LevelChanges[1].new = level
              ELSE LevelChanges = <<>>
           /\ call.arg = call.level => events = NoEvents
           /\ (max_level >= 0 /\ call.level = max_level
                  /\ call.arg > max_level) => events = NoEvents

\* A level above max_level was assigned below max_level: clamped and fired.
C26_Witness ==
    /\ cls = [module |-> "core", kind |-> "Skill"]
    /\ call.op = "set_level"
    /\ max_level > 0
    /\ call.level < max_level
    /\ call.arg > max_level
    /\ level = max_level
    /\ Len(LevelChanges) = 1

\* C27: the cooldown of a gated handler belongs to the skill instance it was
\* started on: a call that is skipped right after a call that ran and
\* started the cooldown is a call on the same instance.  A call on another
\* instance of the class, another player's hero's skill, is not skipped for
\* a cooldown it did not start.
C27_CooldownPerInstance ==
    [][ (last.act = "run" /\ last'.act = "skip") => last'.by = last.by ]_vars

\* The player with this userid is in the players list.
IsConnected(userid) == \E k \in DOMAIN players : players[k].userid = userid

\* The dispatch of a method name to the active hero of a connected player.
DispatchTo(method_name, userid) ==
    LET player == players[CHOOSE k \in DOMAIN players :
                              players[k].userid = userid]
    IN  [method_name |-> method_name, userid |-> userid,
         hero |-> player.heroes[player.hero].cls_id]

\* C28: a death event with a connected victim dispatches on_kill to the
\* attacker's active hero and then on_death to the victim's when the
\* attacker is connected, else only on_suicide to the victim's, and then
\* on_assist to a connected assister; a hurt event dispatches on_attack to
\* the attacker and then on_defend to the victim when both are connected,
\* and nothing otherwise; an event that names no connected player
\* dispatches nothing and raises no error.
C28_EventRouting ==
    /\ (event.op = "player_death" /\ IsConnected(event.userid))
           => event.calls =
                 (IF IsConnected(event.arg[1])
                  THEN <<DispatchTo("on_kill", event.arg[1]),
                         DispatchTo("on_death", event.userid)>>
                  ELSE <<DispatchTo("on_suicide", event.userid)>>)
                 \o (IF IsConnected(event.arg[2])
                     THEN <<DispatchTo("on_assist", event.arg[2])>>
                     ELSE <<>>)
    /\ event.op = "player_hurt"
           => event.calls =
                 IF IsConnected(event.userid) /\ IsConnected(event.arg[1])
                 THEN <<DispatchTo("on_attack", event.arg[1]),
                        DispatchTo("on_defend", event.userid)>>
                 ELSE <<>>
    /\ (event.op \in {"player_death", "player_hurt"}
           /\ ~IsConnected(event.userid)
           /\ \A i \in DOMAIN event.arg : ~IsConnected(event.arg[i]))
           => (event.calls = <<>> /\ event.outcome = "ok")
    /\ (event.op \in {"player_jump", "player_say"}
           /\ ~IsConnected(event.userid))
           => (event.calls = <<>> /\ event.outcome = "ok")
    /\ event.op \in {"player_death", "player_hurt", "player_jump",
                     "player_say"}
           => event.outcome = "ok"

\* A death without a connected attacker, of a victim whose active hero is
\* not the first one, with a connected assister.
C28_Witness ==
    /\ event.op = "player_death"
    /\ event.userid = 1
    /\ event.arg = <<0, 2>>
    /\ Len(event.calls) = 2
    /\ event.calls[1] =
           [method_name |-> "on_suicide", userid |-> 1, hero |-> "Cleric"]
    /\ event.calls[2].method_name = "on_assist"

\* No two entries of the players list have the same userid.
OnePlayerPerUserid ==
    \A i, j \in DOMAIN players : players[i].userid = players[j].userid => i = j

\* C29: after any spawn and disconnect events the players list holds at
\* most one player per userid: a spawn of a userid that is in the list saves
\* that player and leaves the list as it is, and after a disconnect no entry
\* has the userid.
C29_OnePlayerPerSession ==
    [][ /\ OnePlayerPerUserid'
        /\ (event'.op = "player_spawn" /\ IsConnected(event'.userid))
               => /\ players' = players
                  /\ Head(event'.effects) = "save_player_data"
                  /\ \E r \in db'.players :
                        r.steamid = Steamid(event'.userid)
        /\ event'.op = "player_disconnect"
               => \A k \in DOMAIN players' :
                     players'[k].userid # event'.userid ]_vars

\* Both users are connected and one of them has spawned again.
C29_Witness ==
    /\ Len(players) = 2
    /\ event.op = "player_spawn"
    /\ event.effects # <<>>
    /\ Head(event.effects) = "save_player_data"

=============================================================================
